---------------------------- MODULE Spec2Model ----------------------------
(***************************************************************************)
(* The decision loop of WiFiFailoverMonitor (src/wifi_failover/monitor.py) *)
(* as a state machine.  One Tick is one pass of the body of the            *)
(* `while True` loop of monitor_network: the probe, the status log, the    *)
(* counter update, the recovery or failover attempt with every external    *)
(* call it makes, and the closing sleep.  The answers of the outside world *)
(* (probe result, HTTP responses, Keychain lookup, join result) are the    *)
(* inputs of a tick.                                                       *)
(***************************************************************************)
EXTENDS Integers, Sequences, FiniteSets, TLC

\* Bounds of the model.
MaxTicks == 6
MaxThreshold == 3
\* Bounds of the specification with both threads (System).
MaxSysTicks == 2
SysThreshold == 1
MaxBeats == 2
\* Bound of the specification of the heartbeat worker alone (Worker).
MaxWorkerBeats == 11
\* Bound of the specification of the start and stop calls (Lifecycle).
MaxLifecycleCalls == 4

\* Program constants.
HTTP_OK == 200
DefaultFailureThreshold == 2
DefaultRecoveryThreshold == 3
HeartbeatLogEvery == 10

\* How often e occurs in seq.
Count(seq, e) == Cardinality({k \in 1..Len(seq) : seq[k] = e})

VARIABLES
    failure_threshold,    \* self.failure_threshold
    recovery_threshold,   \* self.recovery_threshold
    pc,                   \* position of monitor_network: "init", "running", "stopped"
    failure_count,        \* local failure_count
    recovery_count,       \* local recovery_count
    failover_active,      \* local failover_active (TRUE = Active, FALSE = Idle)
    last_internet_state,  \* local last_internet_state: "None", "True", "False"
    heartbeat_thread,     \* self.heartbeat_thread: "None" or "Thread"
    heartbeat_stop,       \* self.heartbeat_stop (threading.Event)
    hist,                 \* one record per pass run so far: the probe, the status
                          \* before and after, the outcome of the attempt, and
                          \* the two counters at the end of the pass
    events,               \* calls and log entries of the last step, in order
    answers,              \* what the outside world answered in the last tick,
                          \* and what the remote client returned to the loop
    ping,                 \* how the ping of the last tick ended
    posts,                \* requests.post calls issued so far, per endpoint
    calls,                \* calls of the three remote operations so far
    hb_pc,                \* position of _heartbeat_loop: "none" (no worker),
                          \* "check" (at the while test), "send" (in
                          \* send_heartbeat), "sleep", "exited"
    heartbeat_count,      \* self.heartbeat_count
    last_lock_status,     \* self.last_lock_status: "None", "True", "False"
    hb_events,            \* calls and log entries of the last heartbeat tick
    hb_answers,           \* lock probe outcome, response and return value of
                          \* the last heartbeat tick
    orphans,              \* worker threads still running that
                          \* self.heartbeat_thread no longer refers to
    config,               \* the data of the configuration file (Config.data)
    cli                   \* the last command of cli.py: what was run, what it
                          \* returned, and the monitor it constructed, if any

vars == <<failure_threshold, recovery_threshold, pc, failure_count, recovery_count,
          failover_active, last_internet_state, heartbeat_thread, heartbeat_stop,
          hist, events, answers, ping, posts, calls,
          hb_pc, heartbeat_count, last_lock_status, hb_events, hb_answers,
          orphans, config, cli>>

\* The variables of the decision loop, and those of the heartbeat worker.
loopVars == <<failure_count, recovery_count, failover_active, last_internet_state,
              hist, events, answers, ping>>
hbVars == <<hb_pc, heartbeat_count, last_lock_status, hb_events, hb_answers>>
\* The variables of cli.py, and what only start_heartbeat_thread and cli.py
\* change.
cliVars == <<config, cli>>
fixedVars == <<failure_threshold, recovery_threshold, orphans, cliVars>>

-----------------------------------------------------------------------------
\* Inputs: the answers of the outside world.

\* A reply to requests.post: a transport error (exc) or a status code.
StatusCodes == {200, 204, 403, 500}
Responses == {[exc |-> TRUE, status_code |-> 0]}
             \cup {[exc |-> FALSE, status_code |-> c] : c \in StatusCodes}

\* `security find-generic-password`: a password, empty output, or an error.
LookupOutcomes == {"found", "absent", "raise"}
\* `networksetup -setairportnetwork`: returncode 0, non-zero, or an error.
JoinOutcomes == {"ok", "fail", "raise"}

NoAnswers == [probe |-> <<>>, enable |-> <<>>, lookup |-> <<>>,
              join |-> <<>>, disable |-> <<>>,
              enable_ret |-> <<>>, disable_ret |-> <<>>]

\* `ping -c 1`: returncode 0, non-zero, TimeoutExpired, or another error.
PingOutcomes == {"rc0", "rc1", "timeout", "error"}
\* The two outcomes that feed the decision loop when it is studied alone.
PlainPingOutcomes == {"rc0", "rc1"}
\* `pgrep -x ScreenSaverEngine`: returncode 0, non-zero, or an error.
LockOutcomes == {"rc0", "rc1", "raise"}
\* The screen stays unlocked where the lock state is not the subject.
PlainLockOutcomes == {"rc1"}

NoPosts == [enable |-> 0, disable |-> 0, heartbeat |-> 0]

\* Strings of the configuration, as sequences of parts: the empty string is
\* <<>>, and a URL is its scheme followed by the rest.
Ssids == {<<>>, <<"h">>}
Urls == {<<>>, <<"http://", "w">>, <<"https://", "w">>}
Secrets == {<<>>, <<"s">>}
\* No configuration file: Config.load gives {}, and every getter "".
NoConfig == [hotspot_ssid |-> <<>>, worker_url |-> <<>>, worker_secret |-> <<>>]
NoCommand == [entry |-> "none", command |-> "none", config_exists |-> FALSE,
              reached |-> <<>>, ret |-> "None", monitor |-> <<>>, env |-> <<>>]
NoHbAnswers ==
    [lock |-> <<>>, status |-> <<>>, resp |-> <<>>, ret |-> <<>>, stop |-> <<>>]

-----------------------------------------------------------------------------
\* The probes, the remote client and the backup connector: each returns
\* [ret, ev, ...].  A "call:enable", "call:disable" or "call:heartbeat" event
\* is one requests.post to that endpoint.

\* Variant: a ping that does not finish in time counts as reachable.
check_internet_connectivity_TimeoutOnline(outcome) ==
    IF outcome = "error"
    THEN [ret |-> FALSE, ev |-> <<"call:probe", "error:Error checking connectivity">>]
    ELSE [ret |-> outcome \in {"rc0", "timeout"}, ev |-> <<"call:probe">>]

\* Lines 94-108.
check_internet_connectivity(outcome) ==
    IF outcome = "error"
    THEN [ret |-> FALSE, ev |-> <<"call:probe", "error:Error checking connectivity">>]
    ELSE IF outcome = "timeout"
    THEN [ret |-> FALSE, ev |-> <<"call:probe">>]
    ELSE [ret |-> outcome = "rc0", ev |-> <<"call:probe">>]

\* Variant: a lock probe that fails counts as locked.
is_screen_locked_FailLocked(outcome) ==
    outcome \in {"rc0", "raise"}

\* Lines 57-69.
is_screen_locked(outcome) ==
    IF outcome = "raise" THEN FALSE ELSE outcome = "rc0"

\* Variant: any 2xx status counts as success.
trigger_hotspot_failover_Any2xx(resp) ==
    IF resp.exc
    THEN [ret |-> FALSE, ev |-> <<"call:enable", "error:Error triggering hotspot">>]
    ELSE IF resp.status_code \in 200..299
    THEN [ret |-> TRUE, ev |-> <<"call:enable", "info:Hotspot failover triggered">>]
    ELSE [ret |-> FALSE, ev |-> <<"call:enable", "error:Failed to trigger hotspot">>]

\* Variant: a transport error is followed by a second POST.
trigger_hotspot_failover_Retry(resp) ==
    IF resp.exc
    THEN [ret |-> FALSE, ev |-> <<"call:enable", "call:enable",
                                  "error:Error triggering hotspot">>]
    ELSE IF resp.status_code = HTTP_OK
    THEN [ret |-> TRUE, ev |-> <<"call:enable", "info:Hotspot failover triggered">>]
    ELSE [ret |-> FALSE, ev |-> <<"call:enable", "error:Failed to trigger hotspot">>]

\* Lines 110-126.
trigger_hotspot_failover(resp) ==
    IF resp.exc
    THEN [ret |-> FALSE, ev |-> <<"call:enable", "error:Error triggering hotspot">>]
    ELSE IF resp.status_code = HTTP_OK
    THEN [ret |-> TRUE, ev |-> <<"call:enable", "info:Hotspot failover triggered">>]
    ELSE [ret |-> FALSE, ev |-> <<"call:enable", "error:Failed to trigger hotspot">>]

\* Lines 128-144.
disable_hotspot_command(resp) ==
    IF resp.exc
    THEN [ret |-> FALSE, ev |-> <<"call:disable", "error:Error disabling hotspot">>]
    ELSE IF resp.status_code = HTTP_OK
    THEN [ret |-> TRUE, ev |-> <<"call:disable", "info:Hotspot disable command sent">>]
    ELSE [ret |-> FALSE, ev |-> <<"call:disable", "error:Failed to disable hotspot">>]

\* Variant: joins with whatever the lookup printed, an empty password too.
connect_to_hotspot_JoinAnyway(lookup, join) ==
    LET head == <<"info:Attempting to connect", "call:lookup">> IN
    IF lookup = "raise"
    THEN [ret |-> FALSE, joined |-> <<>>,
          ev |-> head \o <<"error:Error getting password from Keychain">>]
    ELSE IF join = "raise"
    THEN [ret |-> FALSE, joined |-> <<join>>,
          ev |-> head \o <<"call:join", "error:Error getting password from Keychain">>]
    ELSE IF join = "ok"
    THEN [ret |-> TRUE, joined |-> <<join>>,
          ev |-> head \o <<"call:join", "info:Connected">>]
    ELSE [ret |-> FALSE, joined |-> <<join>>,
          ev |-> head \o <<"call:join", "error:Connection failed">>]

connect_to_hotspot(lookup, join) ==
    LET head == <<"info:Attempting to connect", "call:lookup">> IN
    IF lookup = "raise"
    THEN [ret |-> FALSE, joined |-> <<>>,
          ev |-> head \o <<"error:Error getting password from Keychain">>]
    ELSE IF lookup = "absent"
    THEN [ret |-> FALSE, joined |-> <<>>,
          ev |-> head \o <<"error:No password found in Keychain">>]
    ELSE IF join = "raise"
    THEN [ret |-> FALSE, joined |-> <<join>>,
          ev |-> head \o <<"call:join", "error:Error getting password from Keychain">>]
    ELSE IF join = "ok"
    THEN [ret |-> TRUE, joined |-> <<join>>,
          ev |-> head \o <<"call:join", "info:Connected">>]
    ELSE [ret |-> FALSE, joined |-> <<join>>,
          ev |-> head \o <<"call:join", "error:Connection failed">>]

-----------------------------------------------------------------------------
\* The body of one pass of the loop.  Each answer of the outside world is
\* drawn where the code asks for it.

\* Variants of the two threshold tests (off by one, or firing once only).
ShouldRecover_Early(active, rc) == active /\ rc + 1 >= recovery_threshold
ShouldRecover_Late(active, rc) == active /\ rc > recovery_threshold
ShouldFailover_Early(active, fc) == fc + 1 >= failure_threshold /\ ~active
ShouldFailover_Late(active, fc) == fc > failure_threshold /\ ~active
ShouldFailover_Once(active, fc) == fc = failure_threshold /\ ~active

\* Line 281.
ShouldRecover(active, rc) == active /\ rc >= recovery_threshold

\* Line 291.
ShouldFailover_EvenActive(active, fc) == fc >= failure_threshold
ShouldFailover(active, fc) == fc >= failure_threshold /\ ~active

\* What the outside world made of the failover attempt of a pass, read off its
\* answers alone: no enable call, enable not accepted (anything but a 200),
\* enable accepted and no successful join, or both succeeded.
Accepted(resp) == ~resp.exc /\ resp.status_code = HTTP_OK
AttemptOutcome(ans) ==
    IF ans.enable = <<>> THEN "none"
    ELSE IF ~Accepted(ans.enable[1]) THEN "rejected"
    ELSE IF ans.lookup = <<"found">> /\ ans.join = <<"ok">> THEN "ok"
    ELSE "connfail"

\* The assignments of one pass: the locals, and the record of the pass.
Commit(is_connected, fc, rc, active, ev, ans) ==
    /\ failure_count' = fc
    /\ recovery_count' = rc
    /\ failover_active' = active
    /\ last_internet_state' = IF is_connected THEN "True" ELSE "False"
    /\ events' = ev
    /\ answers' = [ans EXCEPT !.probe = <<is_connected>>]
    /\ posts' = [posts EXCEPT !.enable = @ + Count(ev, "call:enable"),
                              !.disable = @ + Count(ev, "call:disable")]
    /\ calls' = [calls EXCEPT !.enable = @ + Len(ans.enable),
                              !.disable = @ + Len(ans.disable)]
    /\ hist' = Append(hist, [online |-> is_connected, before |-> failover_active,
                             active |-> active, attempt |-> AttemptOutcome(ans),
                             fails |-> fc, succs |-> rc])

\* Variant: leaves Active only when the disable command was accepted.
OnlineBranch_NeedsDisable(head, tail) ==
    LET fc == 0
        rc == recovery_count + 1
    IN IF ShouldRecover(failover_active, rc)
       THEN \E resp \in Responses :
              LET d == disable_hotspot_command(resp)
                  ev == head \o <<"info:Internet restored, disabling hotspot failover">>
                             \o d.ev \o tail
                  ans == [NoAnswers EXCEPT !.disable = <<resp>>,
                                          !.disable_ret = <<d.ret>>]
              IN IF d.ret THEN Commit(TRUE, fc, 0, FALSE, ev, ans)
                          ELSE Commit(TRUE, fc, rc, failover_active, ev, ans)
       ELSE Commit(TRUE, fc, rc, failover_active, head \o tail, NoAnswers)

\* Variant: an online probe leaves the failure counter as it is.
OnlineBranch_KeepsFailures(head, tail) ==
    LET fc == failure_count
        rc == recovery_count + 1
    IN IF ShouldRecover(failover_active, rc)
       THEN \E resp \in Responses :
              LET d == disable_hotspot_command(resp)
              IN Commit(TRUE, fc, 0, FALSE,
                        head \o <<"info:Internet restored, disabling hotspot failover">>
                             \o d.ev \o tail,
                        [NoAnswers EXCEPT !.disable = <<resp>>,
                                          !.disable_ret = <<d.ret>>])
       ELSE Commit(TRUE, fc, rc, failover_active, head \o tail, NoAnswers)

\* Lines 275-285: the probe found the internet working.
OnlineBranch(head, tail) ==
    LET fc == 0
        rc == recovery_count + 1
    IN IF ShouldRecover(failover_active, rc)
       THEN \E resp \in Responses :
              LET d == disable_hotspot_command(resp)
              IN Commit(TRUE, fc, 0, FALSE,
                        head \o <<"info:Internet restored, disabling hotspot failover">>
                             \o d.ev \o tail,
                        [NoAnswers EXCEPT !.disable = <<resp>>,
                                          !.disable_ret = <<d.ret>>])
       ELSE Commit(TRUE, fc, rc, failover_active, head \o tail, NoAnswers)

\* Variant: a failed connect resets the failure counter.
ConnectStep_ResetOnFailure(fc, rc, pre, tail, ans) ==
    \E lookup \in LookupOutcomes :
    \E join \in (IF lookup = "found" THEN JoinOutcomes ELSE {"fail"}) :
       LET c == connect_to_hotspot(lookup, join)
           a == [ans EXCEPT !.lookup = <<lookup>>, !.join = c.joined]
       IN IF c.ret
          THEN Commit(FALSE, 0, rc, TRUE,
                      pre \o c.ev
                          \o <<"info:Failover complete, connected to hotspot">> \o tail,
                      a)
          ELSE Commit(FALSE, 0, rc, failover_active,
                      pre \o c.ev \o <<"error:Failed to connect to hotspot">> \o tail,
                      a)

\* Variant: a successful connect leaves the failure counter as it is.
ConnectStep_KeepCount(fc, rc, pre, tail, ans) ==
    \E lookup \in LookupOutcomes :
    \E join \in (IF lookup = "found" THEN JoinOutcomes ELSE {"fail"}) :
       LET c == connect_to_hotspot(lookup, join)
           a == [ans EXCEPT !.lookup = <<lookup>>, !.join = c.joined]
       IN IF c.ret
          THEN Commit(FALSE, fc, rc, TRUE,
                      pre \o c.ev
                          \o <<"info:Failover complete, connected to hotspot">> \o tail,
                      a)
          ELSE Commit(FALSE, fc, rc, failover_active,
                      pre \o c.ev \o <<"error:Failed to connect to hotspot">> \o tail,
                      a)

\* Lines 302-308: step 3 of the failover attempt, after the settle delay.
ConnectStep(fc, rc, pre, tail, ans) ==
    \E lookup \in LookupOutcomes :
    \E join \in (IF lookup = "found" THEN JoinOutcomes ELSE {"fail"}) :
       LET c == connect_to_hotspot(lookup, join)
           a == [ans EXCEPT !.lookup = <<lookup>>, !.join = c.joined]
       IN IF c.ret
          THEN Commit(FALSE, 0, rc, TRUE,
                      pre \o c.ev
                          \o <<"info:Failover complete, connected to hotspot">> \o tail,
                      a)
          ELSE Commit(FALSE, fc, rc, failover_active,
                      pre \o c.ev \o <<"error:Failed to connect to hotspot">> \o tail,
                      a)

\* Variant: connects to the hotspot whatever the enable call returned.
OfflineBranch_ConnectAnyway(head, tail) ==
    LET rc == 0
        fc == failure_count + 1
        lost == <<"warning:Internet connectivity lost, triggering failover">>
    IN IF ShouldFailover(failover_active, fc)
       THEN \E resp \in Responses :
              LET t == trigger_hotspot_failover(resp)
                  ans == [NoAnswers EXCEPT !.enable = <<resp>>,
                                           !.enable_ret = <<t.ret>>]
              IN ConnectStep(fc, rc,
                             head \o lost \o t.ev
                                  \o <<"info:Waiting for hotspot to activate",
                                       "sleep:settle">>,
                             tail, ans)
       ELSE Commit(FALSE, fc, rc, failover_active, head \o tail, NoAnswers)

\* Lines 286-308: the probe found the internet down.
OfflineBranch(head, tail) ==
    LET rc == 0
        fc == failure_count + 1
        lost == <<"warning:Internet connectivity lost, triggering failover">>
    IN IF ShouldFailover(failover_active, fc)
       THEN \E resp \in Responses :
              LET t == trigger_hotspot_failover(resp)
                  ans == [NoAnswers EXCEPT !.enable = <<resp>>,
                                           !.enable_ret = <<t.ret>>]
              IN IF t.ret
                 THEN ConnectStep(fc, rc,
                                  head \o lost \o t.ev
                                       \o <<"info:Waiting for hotspot to activate",
                                            "sleep:settle">>,
                                  tail, ans)
                 ELSE Commit(FALSE, fc, rc, failover_active,
                             head \o lost \o t.ev \o tail, ans)
       ELSE Commit(FALSE, fc, rc, failover_active, head \o tail, NoAnswers)

\* Lines 258-272: log on a change of the probe result, or every 5 minutes.
StatusLog(is_connected, periodic) ==
    LET now == IF is_connected THEN "True" ELSE "False"
        should_log_status == last_internet_state = "None"
                             \/ now # last_internet_state
                             \/ periodic
    IN IF should_log_status THEN <<"info:Internet status">> ELSE <<>>

\* Lines 256-308: probe, status log, then one of the two branches.
TickBody(outcomes, tail) ==
    \E outcome \in outcomes :
    LET chk == check_internet_connectivity(outcome)
        is_connected == chk.ret
    IN
    \E periodic \in (IF last_internet_state = (IF is_connected THEN "True" ELSE "False")
                     THEN BOOLEAN ELSE {FALSE}) :
       LET head == chk.ev \o StatusLog(is_connected, periodic)
       IN /\ ping' = outcome
          /\ IF is_connected THEN OnlineBranch(head, tail)
                             ELSE OfflineBranch(head, tail)

-----------------------------------------------------------------------------
\* The heartbeat worker.

\* Variant: every accepted heartbeat is logged.
send_heartbeat_LogsEvery(lock, resp, last, count) ==
    LET is_locked == is_screen_locked(lock)
        status == IF is_locked THEN "paused" ELSE "active"
        now == IF is_locked THEN "True" ELSE "False"
        changed == last = "None" \/ now # last
        lockEv == IF ~changed THEN <<>>
                  ELSE IF is_locked THEN <<"info:Screen LOCKED - sending paused">>
                  ELSE <<"info:Screen UNLOCKED - sending active">>
        pre == <<"call:lock">> \o lockEv \o <<"call:heartbeat">>
        base == [status |-> status, last |-> IF changed THEN now ELSE last]
    IN IF resp.exc
       THEN base @@ [ret |-> FALSE, count |-> count,
                     ev |-> pre \o <<"warning:Error sending heartbeat">>]
       ELSE IF resp.status_code = HTTP_OK
       THEN base @@ [ret |-> TRUE, count |-> count + 1,
                     ev |-> pre \o <<"info:Heartbeats sent">>]
       ELSE base @@ [ret |-> FALSE, count |-> count,
                     ev |-> pre \o <<"warning:Heartbeat failed">>]

\* Variant: the lock status of the last tick is never stored.
send_heartbeat_KeepsLast(lock, resp, last, count) ==
    LET is_locked == is_screen_locked(lock)
        status == IF is_locked THEN "paused" ELSE "active"
        now == IF is_locked THEN "True" ELSE "False"
        changed == last = "None" \/ now # last
        lockEv == IF ~changed THEN <<>>
                  ELSE IF is_locked THEN <<"info:Screen LOCKED - sending paused">>
                  ELSE <<"info:Screen UNLOCKED - sending active">>
        pre == <<"call:lock">> \o lockEv \o <<"call:heartbeat">>
        base == [status |-> status, last |-> last]
    IN IF resp.exc
       THEN base @@ [ret |-> FALSE, count |-> count,
                     ev |-> pre \o <<"warning:Error sending heartbeat">>]
       ELSE IF resp.status_code = HTTP_OK
       THEN base @@ [ret |-> TRUE, count |-> count + 1,
                     ev |-> pre \o (IF (count + 1) % HeartbeatLogEvery = 0
                                    THEN <<"info:Heartbeats sent">> ELSE <<>>)]
       ELSE base @@ [ret |-> FALSE, count |-> count,
                     ev |-> pre \o <<"warning:Heartbeat failed">>]

\* Variant: every reply that is not an error status counts as accepted.
send_heartbeat_CountsAny2xx(lock, resp, last, count) ==
    LET is_locked == is_screen_locked(lock)
        status == IF is_locked THEN "paused" ELSE "active"
        now == IF is_locked THEN "True" ELSE "False"
        changed == last = "None" \/ now # last
        lockEv == IF ~changed THEN <<>>
                  ELSE IF is_locked THEN <<"info:Screen LOCKED - sending paused">>
                  ELSE <<"info:Screen UNLOCKED - sending active">>
        pre == <<"call:lock">> \o lockEv \o <<"call:heartbeat">>
        base == [status |-> status, last |-> IF changed THEN now ELSE last]
    IN IF resp.exc
       THEN base @@ [ret |-> FALSE, count |-> count,
                     ev |-> pre \o <<"warning:Error sending heartbeat">>]
       ELSE IF resp.status_code >= 200 /\ resp.status_code < 300
       THEN base @@ [ret |-> TRUE, count |-> count + 1,
                     ev |-> pre \o (IF (count + 1) % HeartbeatLogEvery = 0
                                    THEN <<"info:Heartbeats sent">> ELSE <<>>)]
       ELSE base @@ [ret |-> FALSE, count |-> count,
                     ev |-> pre \o <<"warning:Heartbeat failed">>]

\* Lines 146-177: one heartbeat, given the outcome of the lock probe, the
\* reply to the POST, and the two fields it reads.
send_heartbeat(lock, resp, last, count) ==
    LET is_locked == is_screen_locked(lock)
        status == IF is_locked THEN "paused" ELSE "active"
        now == IF is_locked THEN "True" ELSE "False"
        changed == last = "None" \/ now # last
        lockEv == IF ~changed THEN <<>>
                  ELSE IF is_locked THEN <<"info:Screen LOCKED - sending paused">>
                  ELSE <<"info:Screen UNLOCKED - sending active">>
        pre == <<"call:lock">> \o lockEv \o <<"call:heartbeat">>
        base == [status |-> status, last |-> IF changed THEN now ELSE last]
    IN IF resp.exc
       THEN base @@ [ret |-> FALSE, count |-> count,
                     ev |-> pre \o <<"warning:Error sending heartbeat">>]
       ELSE IF resp.status_code = HTTP_OK
       THEN base @@ [ret |-> TRUE, count |-> count + 1,
                     ev |-> pre \o (IF (count + 1) % HeartbeatLogEvery = 0
                                    THEN <<"info:Heartbeats sent">> ELSE <<>>)]
       ELSE base @@ [ret |-> FALSE, count |-> count,
                     ev |-> pre \o <<"warning:Heartbeat failed">>]

\* threading.Thread.is_alive() of self.heartbeat_thread.
IsAlive == heartbeat_thread # "None" /\ hb_pc \in {"check", "send", "sleep"}

\* Variant: a worker loop that never looks at the stop flag.
HbCheck_IgnoresStop ==
    /\ hb_pc = "check"
    /\ posts.heartbeat < MaxBeats
    /\ hb_pc' = "send"
    /\ UNCHANGED <<fixedVars, pc, loopVars,
                   heartbeat_thread, heartbeat_stop, posts, calls,
                   heartbeat_count, last_lock_status, hb_events, hb_answers>>

\* Line 181: the while test of _heartbeat_loop.  (The worker starts no
\* heartbeat beyond the bound: the model stops there.)
Check(bound) ==
    /\ hb_pc = "check"
    /\ IF heartbeat_stop
       THEN hb_pc' = "exited"
       ELSE /\ posts.heartbeat < bound
            /\ hb_pc' = "send"
    /\ UNCHANGED <<fixedVars, pc, loopVars,
                   heartbeat_thread, heartbeat_stop, posts, calls,
                   heartbeat_count, last_lock_status, hb_events, hb_answers>>

HbCheck == Check(MaxBeats)

\* Variant: a heartbeat that is not accepted counts as a failed probe.
Beat_CountsAsProbe(locks) ==
    /\ hb_pc = "send"
    /\ \E lock \in locks, resp \in Responses :
          LET r == send_heartbeat(lock, resp, last_lock_status, heartbeat_count)
          IN /\ heartbeat_count' = r.count
             /\ last_lock_status' = r.last
             /\ hb_events' = r.ev
             /\ hb_answers' = [lock |-> <<lock>>, status |-> <<r.status>>,
                               resp |-> <<resp>>, ret |-> <<r.ret>>,
                               stop |-> <<heartbeat_stop>>]
             /\ posts' = [posts EXCEPT !.heartbeat = @ + Count(r.ev, "call:heartbeat")]
             /\ calls' = [calls EXCEPT !.heartbeat = @ + 1]
             /\ failure_count' = IF r.ret THEN failure_count ELSE failure_count + 1
    /\ hb_pc' = "sleep"
    /\ UNCHANGED <<fixedVars, pc, recovery_count,
                   failover_active, last_internet_state, hist, events, answers,
                   ping, heartbeat_thread, heartbeat_stop>>

\* Variant: the worker loop ends at the first heartbeat that fails.
Beat_AbortOnFailure(locks) ==
    /\ hb_pc = "send"
    /\ \E lock \in locks, resp \in Responses :
          LET r == send_heartbeat(lock, resp, last_lock_status, heartbeat_count)
          IN /\ heartbeat_count' = r.count
             /\ last_lock_status' = r.last
             /\ hb_events' = r.ev
             /\ hb_answers' = [lock |-> <<lock>>, status |-> <<r.status>>,
                               resp |-> <<resp>>, ret |-> <<r.ret>>,
                               stop |-> <<heartbeat_stop>>]
             /\ posts' = [posts EXCEPT !.heartbeat = @ + Count(r.ev, "call:heartbeat")]
             /\ calls' = [calls EXCEPT !.heartbeat = @ + 1]
             /\ hb_pc' = IF r.ret THEN "sleep" ELSE "exited"
    /\ UNCHANGED <<fixedVars, pc, loopVars,
                   heartbeat_thread, heartbeat_stop>>

\* Line 182: send_heartbeat, the lock probe answering one of `locks`.
Beat(locks) ==
    /\ hb_pc = "send"
    /\ \E lock \in locks, resp \in Responses :
          LET r == send_heartbeat(lock, resp, last_lock_status, heartbeat_count)
          IN /\ heartbeat_count' = r.count
             /\ last_lock_status' = r.last
             /\ hb_events' = r.ev
             /\ hb_answers' = [lock |-> <<lock>>, status |-> <<r.status>>,
                               resp |-> <<resp>>, ret |-> <<r.ret>>,
                               stop |-> <<heartbeat_stop>>]
             /\ posts' = [posts EXCEPT !.heartbeat = @ + Count(r.ev, "call:heartbeat")]
             /\ calls' = [calls EXCEPT !.heartbeat = @ + 1]
    /\ hb_pc' = "sleep"
    /\ UNCHANGED <<fixedVars, pc, loopVars,
                   heartbeat_thread, heartbeat_stop>>

HbSend == Beat(PlainLockOutcomes)

\* Variant: a loop that tests the stop flag before its first pass only.
HbWake_SkipsCheck ==
    /\ hb_pc = "sleep"
    /\ posts.heartbeat < MaxBeats
    /\ hb_pc' = "send"
    /\ UNCHANGED <<fixedVars, pc, loopVars,
                   heartbeat_thread, heartbeat_stop, posts, calls,
                   heartbeat_count, last_lock_status, hb_events, hb_answers>>

\* Line 183: time.sleep(2) returns.
HbWake ==
    /\ hb_pc = "sleep"
    /\ hb_pc' = "check"
    /\ UNCHANGED <<fixedVars, pc, loopVars,
                   heartbeat_thread, heartbeat_stop, posts, calls,
                   heartbeat_count, last_lock_status, hb_events, hb_answers>>

\* Variant: a new worker is started whether or not one is running.
start_heartbeat_thread_NoAliveTest ==
    /\ heartbeat_stop' = FALSE
    /\ orphans' = orphans + (IF IsAlive THEN 1 ELSE 0)
    /\ heartbeat_thread' = "Thread"
    /\ hb_pc' = "check"

\* Lines 185-191.  The thread that self.heartbeat_thread referred to goes on
\* running, if it was running, when the field is given a new thread.
start_heartbeat_thread ==
    IF heartbeat_thread = "None" \/ ~IsAlive
    THEN /\ heartbeat_stop' = FALSE
         /\ orphans' = orphans + (IF IsAlive THEN 1 ELSE 0)
         /\ heartbeat_thread' = "Thread"
         /\ hb_pc' = "check"
    ELSE UNCHANGED <<heartbeat_stop, orphans, heartbeat_thread, hb_pc>>

\* Variant: waits for the worker without setting the stop flag.
stop_heartbeat_thread_NoSignal ==
    UNCHANGED <<heartbeat_stop, heartbeat_thread>>

\* Lines 195-196: stop_heartbeat_thread up to the join.
stop_heartbeat_thread ==
    IF heartbeat_thread # "None"
    THEN /\ heartbeat_stop' = TRUE
         /\ UNCHANGED heartbeat_thread
    ELSE UNCHANGED <<heartbeat_stop, heartbeat_thread>>

\* Variant: a join without timeout.
JoinMayReturn_NoTimeout == ~IsAlive

\* Line 197: join(timeout=2) returns when the worker has ended, or when the
\* timeout has passed, whatever the worker is doing then.
JoinMayReturn == ~IsAlive \/ TRUE

-----------------------------------------------------------------------------
Init ==
    /\ failure_threshold \in 0..MaxThreshold
    /\ recovery_threshold \in 0..MaxThreshold
    /\ pc = "init"
    /\ failure_count = 0
    /\ recovery_count = 0
    /\ failover_active = FALSE
    /\ last_internet_state = "None"
    /\ heartbeat_thread = "None"
    /\ heartbeat_stop = FALSE
    /\ hist = <<>>
    /\ events = <<>>
    /\ answers = NoAnswers
    /\ ping = "none"
    /\ posts = NoPosts
    /\ calls = NoPosts
    /\ hb_pc = "none"
    /\ heartbeat_count = 0
    /\ last_lock_status = "None"
    /\ hb_events = <<>>
    /\ hb_answers = NoHbAnswers
    /\ orphans = 0
    /\ config = NoConfig
    /\ cli = NoCommand

\* Lines 240-252: monitor_network up to the loop.
Start ==
    /\ pc = "init"
    /\ pc' = "running"
    /\ start_heartbeat_thread
    /\ failure_count' = 0
    /\ recovery_count' = 0
    /\ failover_active' = FALSE
    /\ last_internet_state' = "None"
    /\ events' = <<"info:Starting WiFi failover monitor", "info:Heartbeat thread started">>
    /\ UNCHANGED <<failure_threshold, recovery_threshold, cliVars, hist, answers, ping,
                   posts, calls, heartbeat_count, last_lock_status,
                   hb_events, hb_answers>>

\* Variant: a pass of the loop forgets the lock status the worker stored.
Pass_ClearsLockStatus(bound, outcomes) ==
    /\ pc = "running"
    /\ Len(hist) < bound
    /\ TickBody(outcomes, <<"sleep:check_interval">>)
    /\ last_lock_status' = "None"
    /\ UNCHANGED <<fixedVars, pc, heartbeat_thread, heartbeat_stop,
                   hb_pc, heartbeat_count, hb_events, hb_answers>>

\* Lines 255-310: one pass of the loop, the sleep at its end returning.
Pass(bound, outcomes) ==
    /\ pc = "running"
    /\ Len(hist) < bound
    /\ TickBody(outcomes, <<"sleep:check_interval">>)
    /\ UNCHANGED <<fixedVars, pc,
                   heartbeat_thread, heartbeat_stop, hbVars>>

\* Lines 255-310, 314-316: one pass of the loop that raises an exception other
\* than KeyboardInterrupt (here: at the statement that ends the pass).  The
\* handler sits outside the loop; the finally clause then signals the worker.
PassFault(bound, outcomes) ==
    /\ pc = "running"
    /\ Len(hist) < bound
    /\ TickBody(outcomes, <<"raise:Exception", "error:Unexpected error">>)
    /\ pc' = "joining"
    /\ stop_heartbeat_thread
    /\ UNCHANGED <<fixedVars, hbVars>>

Tick == Pass(MaxTicks, PlainPingOutcomes)
TickFault == PassFault(MaxTicks, PlainPingOutcomes)

\* Variant: the shutdown switches the backup link off when it is in use.
Interrupt_DisablesBackup ==
    /\ pc = "running"
    /\ pc' = "joining"
    /\ stop_heartbeat_thread
    /\ events' = <<"raise:KeyboardInterrupt", "info:Monitor stopped by user">>
                  \o (IF failover_active THEN <<"call:disable">> ELSE <<>>)
    /\ posts' = [posts EXCEPT !.disable = @ + (IF failover_active THEN 1 ELSE 0)]
    /\ calls' = [calls EXCEPT !.disable = @ + (IF failover_active THEN 1 ELSE 0)]
    /\ UNCHANGED <<fixedVars, failure_count,
                   recovery_count, failover_active, last_internet_state,
                   hist, answers, ping, hbVars>>

\* Lines 310, 312-313, 316: KeyboardInterrupt during the sleep between two
\* passes; the finally clause then signals the worker.
Interrupt ==
    /\ pc = "running"
    /\ pc' = "joining"
    /\ stop_heartbeat_thread
    /\ events' = <<"raise:KeyboardInterrupt", "info:Monitor stopped by user">>
    /\ UNCHANGED <<fixedVars, failure_count,
                   recovery_count, failover_active, last_internet_state,
                   hist, answers, ping, posts, calls, hbVars>>

\* Lines 197-198, 317: the join returns, stop_heartbeat_thread logs, and
\* monitor_network returns.
JoinReturn ==
    /\ pc = "joining"
    /\ JoinMayReturn
    /\ pc' = "stopped"
    /\ events' = Append(events, "info:Heartbeat thread stopped")
    /\ UNCHANGED <<fixedVars, failure_count,
                   recovery_count, failover_active, last_internet_state,
                   hist, answers, ping, posts, calls,
                   heartbeat_thread, heartbeat_stop, hbVars>>

\* The decision loop alone, up to the point where it waits for the worker:
\* the steps of the heartbeat worker are left out, and the ping either
\* succeeds or fails.
Next == Start \/ Tick \/ TickFault \/ Interrupt

Spec == Init /\ [][Next]_vars

\* Both threads, every interleaving of their steps, every outcome of the ping.
SysInit ==
    /\ Init
    /\ failure_threshold = SysThreshold
    /\ recovery_threshold = SysThreshold

SysTick == Pass(MaxSysTicks, PingOutcomes)
SysTickFault == PassFault(MaxSysTicks, PingOutcomes)

SysNext ==
    \/ Start \/ SysTick \/ SysTickFault \/ Interrupt \/ JoinReturn
    \/ HbCheck \/ HbSend \/ HbWake

System == SysInit /\ [][SysNext]_vars

\* The main thread keeps running; nothing is assumed of the worker.
SystemMainFair == System /\ WF_vars(JoinReturn)

\* Both threads keep running: every heartbeat call and every sleep returns.
SystemFair ==
    /\ System
    /\ WF_vars(JoinReturn)
    /\ WF_vars(HbCheck) /\ WF_vars(HbSend) /\ WF_vars(HbWake)

\* The heartbeat worker alone, from its start to the shutdown, the lock probe
\* answering in every way; the decision loop makes no pass.
WorkerCheck == Check(MaxWorkerBeats)
WorkerSend == Beat(LockOutcomes)

WorkerNext ==
    \/ Start \/ Interrupt \/ JoinReturn
    \/ WorkerCheck \/ WorkerSend \/ HbWake

Worker == SysInit /\ [][WorkerNext]_vars

\* The two public methods that start and stop the worker, called in any
\* order by one caller, the worker running in between.  Here pc is the
\* position of the caller: "init" between two calls, "joining" inside the
\* join of stop_heartbeat_thread; events lists the calls made.

\* Lines 185-191: a call of start_heartbeat_thread.
LcStart ==
    /\ pc = "init"
    /\ Len(events) < MaxLifecycleCalls
    /\ start_heartbeat_thread
    /\ events' = Append(events, "call:start_heartbeat_thread")
    /\ UNCHANGED <<failure_threshold, recovery_threshold, cliVars, pc,
                   failure_count, recovery_count, failover_active,
                   last_internet_state, hist, answers, ping, posts, calls,
                   heartbeat_count, last_lock_status, hb_events, hb_answers>>

\* Lines 193-197: a call of stop_heartbeat_thread, up to the join; without a
\* thread it returns at once.
LcStop ==
    /\ pc = "init"
    /\ Len(events) < MaxLifecycleCalls
    /\ stop_heartbeat_thread
    /\ pc' = IF heartbeat_thread # "None" THEN "joining" ELSE "init"
    /\ events' = Append(events, "call:stop_heartbeat_thread")
    /\ UNCHANGED <<fixedVars, failure_count, recovery_count, failover_active,
                   last_internet_state, hist, answers, ping, posts, calls,
                   hbVars>>

\* Lines 197-198: the join returns, and stop_heartbeat_thread with it.
LcJoinReturn ==
    /\ pc = "joining"
    /\ JoinMayReturn
    /\ pc' = "init"
    /\ UNCHANGED <<fixedVars, loopVars, posts, calls,
                   heartbeat_thread, heartbeat_stop, hbVars>>

LcNext ==
    \/ LcStart \/ LcStop \/ LcJoinReturn
    \/ HbCheck \/ HbSend \/ HbWake

Lifecycle == SysInit /\ [][LcNext]_vars

-----------------------------------------------------------------------------
\* The commands of cli.py and the setters of Config.  Each operator gives the
\* configuration file after the command, what the command returned, the
\* functions it reached, and the arguments of the WiFiFailoverMonitor it
\* constructed and ran, if any.

\* `not s` is false, and s.startswith("https://") is true.
Truthy(str) == str # <<>>
StartsWithHttps(url) == Len(url) >= 1 /\ url[1] = "https://"

\* cli.py 530, 566, 654-658: all three values are set.
Complete(cfg) ==
    Truthy(cfg.hotspot_ssid) /\ Truthy(cfg.worker_url) /\ Truthy(cfg.worker_secret)

Outcome(cfg, ret, reached, monitor) ==
    [config |-> cfg, ret |-> ret, reached |-> reached, monitor |-> monitor]

\* config.py 61-63, 69-71, 77-79: no test of the value.
set_hotspot_ssid(cfg, ssid) == [cfg EXCEPT !.hotspot_ssid = ssid]
set_worker_url(cfg, url) == [cfg EXCEPT !.worker_url = url]
set_worker_secret(cfg, secret) == [cfg EXCEPT !.worker_secret = secret]

\* What is typed at the prompts and what the .env file holds (<<>>: nothing).
SetupInputs ==
    [ssid : Ssids, env_ssid : Ssids, url : Urls, env_url : Urls,
     secret : Secrets, env_secret : Secrets]

\* cli.py 56-79: ok is false when the function asks again.
get_hotspot_ssid(in) ==
    LET ssid == IF ~Truthy(in.ssid) /\ Truthy(in.env_ssid) THEN in.env_ssid ELSE in.ssid
    IN [ok |-> Truthy(ssid), ssid |-> ssid]

\* cli.py 82-115: ok is false when the function asks again.
get_cloudflare_credentials(in) ==
    LET worker_url == IF ~Truthy(in.url) /\ Truthy(in.env_url)
                      THEN in.env_url ELSE in.url
        worker_secret == IF ~Truthy(in.secret) /\ Truthy(in.env_secret)
                         THEN in.env_secret ELSE in.secret
    IN [ok |-> StartsWithHttps(worker_url) /\ Truthy(worker_secret),
        worker_url |-> worker_url, worker_secret |-> worker_secret]

\* cli.py 250-293, for answers that the two functions above accept.
setup_interactive(cfg, in) ==
    LET h == get_hotspot_ssid(in)
        c == get_cloudflare_credentials(in)
        saved == set_worker_secret(
                     set_worker_url(set_hotspot_ssid(cfg, h.ssid), c.worker_url),
                     c.worker_secret)
    IN Outcome(saved, "True", <<"setup_interactive">>, <<>>)

\* Variant: the daemons are killed and the values saved before they are
\* tested.
setup_non_interactive_ActsFirst(cfg, in, launched) ==
    LET saved == set_worker_secret(
                     set_worker_url(set_hotspot_ssid(cfg, in.env_ssid), in.env_url),
                     in.env_secret)
        acts == <<"setup_non_interactive", "kill_existing_daemons",
                  "set_hotspot_ssid", "set_worker_url", "set_worker_secret">>
    IN IF ~Truthy(in.env_ssid) \/ ~Truthy(in.env_url) \/ ~Truthy(in.env_secret)
       THEN Outcome(saved, "False", acts, <<>>)
       ELSE IF ~StartsWithHttps(in.env_url)
       THEN Outcome(saved, "False", acts, <<>>)
       ELSE Outcome(saved, IF launched THEN "True" ELSE "False",
                    Append(acts, "start_daemon_launchd"), <<>>)

\* cli.py 169-247: the three values come from the .env file or the
\* environment; `launched` is what start_daemon_launchd returns.  Each of the
\* three setters writes the configuration file.
setup_non_interactive(cfg, in, launched) ==
    IF ~Truthy(in.env_ssid) \/ ~Truthy(in.env_url) \/ ~Truthy(in.env_secret)
    THEN Outcome(cfg, "False", <<"setup_non_interactive">>, <<>>)
    ELSE IF ~StartsWithHttps(in.env_url)
    THEN Outcome(cfg, "False", <<"setup_non_interactive">>, <<>>)
    ELSE Outcome(set_worker_secret(
                     set_worker_url(set_hotspot_ssid(cfg, in.env_ssid), in.env_url),
                     in.env_secret),
                 IF launched THEN "True" ELSE "False",
                 <<"setup_non_interactive", "kill_existing_daemons",
                   "set_hotspot_ssid", "set_worker_url", "set_worker_secret",
                   "start_daemon_launchd">>, <<>>)

\* Variant: the monitor is started without the test of the configuration.
start_monitor_NoValidation(cfg) ==
    Outcome(cfg, "True", <<"start_monitor">>,
            <<[hotspot_ssid |-> cfg.hotspot_ssid, worker_url |-> cfg.worker_url,
               worker_secret |-> cfg.worker_secret]>>)

\* cli.py 556-583.
start_monitor(cfg) ==
    IF ~Complete(cfg)
    THEN Outcome(cfg, "False", <<"start_monitor">>, <<>>)
    ELSE Outcome(cfg, "True", <<"start_monitor">>,
                 <<[hotspot_ssid |-> cfg.hotspot_ssid, worker_url |-> cfg.worker_url,
                    worker_secret |-> cfg.worker_secret]>>)

\* cli.py 520-553.
start_daemon_background(cfg) ==
    IF ~Complete(cfg)
    THEN Outcome(cfg, "False", <<"start_daemon_background">>, <<>>)
    ELSE Outcome(cfg, "True", <<"start_daemon_background">>,
                 <<[hotspot_ssid |-> cfg.hotspot_ssid, worker_url |-> cfg.worker_url,
                    worker_secret |-> cfg.worker_secret]>>)

Commands == {"setup", "setup --non-interactive", "daemon", "enable-autostart",
             "disable-autostart", "start", "status", "none"}

\* cli.py 625-694: `answer` is the reply to "Run setup wizard now?".
main(cfg, command, answer, in, launched) ==
    LET config_exists == Complete(cfg)
        requires_config == command \in {"daemon", "start", "status"}
        sub == IF requires_config /\ ~config_exists
               THEN IF answer = "y"
                    THEN setup_interactive(cfg, in)
                    ELSE Outcome(cfg, "None", <<>>, <<>>)
               ELSE IF command = "setup" THEN setup_interactive(cfg, in)
               ELSE IF command = "setup --non-interactive"
               THEN setup_non_interactive(cfg, in, launched)
               ELSE IF command = "daemon"
               THEN Outcome(cfg, "None", <<"start_daemon_launchd">>, <<>>)
               ELSE IF command = "enable-autostart"
               THEN Outcome(cfg, "None", <<"setup_launchd_autostart">>, <<>>)
               ELSE IF command = "disable-autostart"
               THEN Outcome(cfg, "None", <<"disable_launchd_autostart">>, <<>>)
               ELSE IF command = "start" THEN start_monitor(cfg)
               ELSE IF command = "status"
               THEN Outcome(cfg, "None", <<"show_status">>, <<>>)
               ELSE Outcome(cfg, "None", <<"print_help">>, <<>>)
    IN [sub EXCEPT !.ret = "None"]

\* What cli.py and Config leave alone: the monitor and its two loops.
monitorVars == <<failure_threshold, recovery_threshold, pc, loopVars,
                 heartbeat_thread, heartbeat_stop, posts, calls, hbVars, orphans>>

\* The command `entry` has run, with the outcome r; env is what it read
\* from the .env file and the environment (<<>>: it reads neither).
RanWith(entry, command, r, env) ==
    /\ config' = r.config
    /\ cli' = [entry |-> entry, command |-> command,
               config_exists |-> Complete(config), reached |-> r.reached,
               ret |-> r.ret, monitor |-> r.monitor, env |-> env]
    /\ UNCHANGED monitorVars

Ran(entry, command, r) == RanWith(entry, command, r, <<>>)

\* HOTSPOT_SSID, WORKER_URL and WORKER_SECRET as setup_non_interactive reads
\* them.
Env(in) == <<[ssid |-> in.env_ssid, url |-> in.env_url, secret |-> in.env_secret]>>

\* The prompts of the interactive setup are answered until they are accepted.
AcceptedInputs(in) == get_hotspot_ssid(in).ok /\ get_cloudflare_credentials(in).ok

CliSetHotspotSsid ==
    \E ssid \in Ssids :
       Ran("set_hotspot_ssid", "none", Outcome(set_hotspot_ssid(config, ssid), "None", <<>>, <<>>))

CliSetWorkerUrl ==
    \E url \in Urls :
       Ran("set_worker_url", "none", Outcome(set_worker_url(config, url), "None", <<>>, <<>>))

CliSetWorkerSecret ==
    \E secret \in Secrets :
       Ran("set_worker_secret", "none",
           Outcome(set_worker_secret(config, secret), "None", <<>>, <<>>))

CliSetupInteractive ==
    \E in \in SetupInputs :
       /\ AcceptedInputs(in)
       /\ Ran("setup_interactive", "none", setup_interactive(config, in))

CliSetupNonInteractive ==
    \E in \in SetupInputs, launched \in BOOLEAN :
       RanWith("setup_non_interactive", "none",
               setup_non_interactive(config, in, launched), Env(in))

CliStartMonitor == Ran("start_monitor", "none", start_monitor(config))

CliStartDaemonBackground ==
    Ran("start_daemon_background", "none", start_daemon_background(config))

CliMain ==
    \E command \in Commands, answer \in {"y", "n"},
       in \in SetupInputs, launched \in BOOLEAN :
       LET r == main(config, command, answer, in, launched)
       IN /\ r.reached = <<"setup_interactive">> => AcceptedInputs(in)
          /\ RanWith("main", command, r,
                     IF "setup_non_interactive" \in {r.reached[k] : k \in 1..Len(r.reached)}
                     THEN Env(in) ELSE <<>>)

CliNext ==
    \/ CliSetHotspotSsid \/ CliSetWorkerUrl \/ CliSetWorkerSecret
    \/ CliSetupInteractive \/ CliSetupNonInteractive
    \/ CliStartMonitor \/ CliStartDaemonBackground \/ CliMain

Cli == SysInit /\ [][CliNext]_vars

-----------------------------------------------------------------------------
\* Reading the record of the passes.  Idle is failover_active = FALSE, Active
\* is failover_active = TRUE; consecutive_failures is failure_count and
\* consecutive_successes is recovery_count.

N == Len(hist)
Ticks == 1..N
Entered(i) == ~hist[i].before /\ hist[i].active
Returned(i) == hist[i].before /\ ~hist[i].active
PrevFails(i) == IF i = 1 THEN 0 ELSE hist[i-1].fails
PrevSuccs(i) == IF i = 1 THEN 0 ELSE hist[i-1].succs
Failed(i) == hist[i].attempt \in {"rejected", "connfail"}
Probes == [i \in Ticks |-> hist[i].online]
States == [i \in Ticks |-> hist[i].active]
\* The events are those of the last pass (no interrupt came after it).
TickJustRan == N >= 1 /\ Count(events, "call:probe") = 1
IsPrefix(p, q) == Len(p) <= Len(q) /\ \A k \in 1..Len(p) : p[k] = q[k]

\* The last k passes up to and including pass i all probed offline and
\* started Idle.
OfflineIdleWindow(i, k) ==
    /\ i >= k
    /\ \A j \in (i - k + 1)..i : ~hist[j].online /\ ~hist[j].before

\* The last k passes up to and including pass i all probed online and
\* started Active.
OnlineActiveWindow(i, k) ==
    /\ i >= k
    /\ \A j \in (i - k + 1)..i : hist[j].online /\ hist[j].before

\* C1: the machine changes from Idle to Active at tick i if and only if the
\* probes of the last failure_threshold ticks up to and including i were all
\* offline, the machine was Idle throughout that window, and the failover
\* attempt made at tick i succeeded (enable accepted and connect succeeded);
\* and whenever the window qualifies, the attempt is made.
C1_EnterIffWindowAndSuccess ==
    \A i \in Ticks :
       /\ Entered(i) <=> (OfflineIdleWindow(i, failure_threshold)
                          /\ hist[i].attempt = "ok")
       /\ (OfflineIdleWindow(i, failure_threshold)
           /\ ~hist[i].online /\ ~hist[i].before) => hist[i].attempt # "none"

C1_Witness ==
    /\ N >= 3
    /\ Entered(N)
    /\ hist[N-2].online
    /\ failure_threshold = 2

\* C2: at every Idle-to-Active transition the failure counter, read just
\* before it is reset (the count of the previous pass plus this pass's
\* failure), is at least failure_threshold.
C2_EnterOnlyAtThreshold ==
    \A i \in Ticks : Entered(i) => PrevFails(i) + 1 >= failure_threshold

C2_Witness ==
    /\ N >= 1
    /\ Entered(N)
    /\ PrevFails(N) + 1 = failure_threshold
    /\ failure_threshold = MaxThreshold

\* C3: once Active, the machine returns to Idle only after recovery_threshold
\* consecutive online probes, all of them observed while Active, whatever
\* disableBackup() returned; an offline probe while Active restarts the count.
C3_ReturnOnlyAfterRecovery ==
    /\ \A i \in Ticks : Returned(i) => OnlineActiveWindow(i, recovery_threshold)
    /\ \A i \in Ticks : ~hist[i].online => hist[i].succs = 0

C3_Witness ==
    /\ N >= 1
    /\ Returned(N)
    /\ recovery_threshold = 2
    /\ answers.disable # <<>>
    /\ ~Accepted(answers.disable[1])
    /\ \E j \in Ticks : ~hist[j].online /\ hist[j].before

\* C4: on an online tick with state Active and consecutive_successes (this
\* tick counted) >= recovery_threshold, disableBackup() is called exactly
\* once, and the state becomes Idle and consecutive_successes 0, also when the
\* disable call is rejected or fails with a transport error.
C4_RecoveryIgnoresDisableResult ==
    \A i \in Ticks :
       (hist[i].online /\ hist[i].before
        /\ PrevSuccs(i) + 1 >= recovery_threshold)
       => /\ ~hist[i].active
          /\ hist[i].succs = 0
          /\ i = N /\ TickJustRan =>
                /\ Count(events, "call:disable") = 1
                /\ Len(answers.disable) = 1

C4_Witness ==
    /\ TickJustRan
    /\ hist[N].online /\ hist[N].before
    /\ PrevSuccs(N) + 1 >= recovery_threshold
    /\ answers.disable = <<[exc |-> TRUE, status_code |-> 0]>>

\* C5: a failed failover attempt (enable rejected, or enable accepted and
\* connect failed) leaves the state Idle and does not reset
\* consecutive_failures, and if the next probe is also offline the attempt is
\* made again on that very next tick.
C5_FailedAttemptRetriedNextTick ==
    \A i \in Ticks :
       Failed(i) =>
          /\ ~hist[i].active
          /\ hist[i].fails = PrevFails(i) + 1
          /\ hist[i].fails >= failure_threshold
          /\ (i < N /\ ~hist[i+1].online) => hist[i+1].attempt # "none"
          /\ (i + 1 = N /\ ~hist[N].online /\ TickJustRan) =>
                Count(events, "call:enable") = 1

C5_Witness ==
    /\ N >= 2
    /\ hist[N-1].attempt = "connfail"
    /\ ~hist[N].online
    /\ hist[N].attempt = "ok"

\* C6: while the machine is Idle and enableBackup() is rejected on every
\* call, every offline tick from the failure_threshold-th consecutive offline
\* tick onward calls enableBackup() exactly once, without cap or backoff, and
\* the state stays Idle (probes [F,F,F,F], threshold 2: Idle on all four
\* ticks, enableBackup called on ticks 2, 3 and 4).
AllOfflineAllRejected ==
    \A i \in Ticks : ~hist[i].online /\ hist[i].attempt \in {"none", "rejected"}

C6_RejectedEnableRetriedEveryTick ==
    AllOfflineAllRejected =>
       /\ \A i \in Ticks :
             /\ ~hist[i].active
             /\ hist[i].attempt = "rejected" <=> i >= failure_threshold
       /\ TickJustRan =>
             Count(events, "call:enable") = (IF N >= failure_threshold THEN 1 ELSE 0)

C6_Witness ==
    /\ failure_threshold = DefaultFailureThreshold
    /\ N = 4
    /\ AllOfflineAllRejected
    /\ [i \in Ticks |-> hist[i].attempt] = <<"none", "rejected", "rejected", "rejected">>
    /\ Count(events, "call:enable") = 1

\* C7: after any transition (Idle to Active or Active to Idle) both counters
\* are zero.
C7_CountersZeroAfterTransition ==
    \A i \in Ticks :
       (Entered(i) \/ Returned(i)) => hist[i].fails = 0 /\ hist[i].succs = 0

C7_Witness ==
    /\ N >= 2
    /\ Returned(N)
    /\ \E i \in Ticks : Entered(i) /\ PrevFails(i) >= 1

\* C8: no exception propagates out of a single tick: after a fault in a tick
\* the loop runs on, and the decision loop stops only on an explicit
\* external interrupt.
C8_LoopStopsOnlyOnInterrupt ==
    pc = "stopped" => Count(events, "raise:KeyboardInterrupt") = 1

\* C9: when the credential lookup returns nothing, connect returns false
\* without attempting to join and logs the missing-credential event, which no
\* other outcome logs; the state remains Idle and consecutive_failures is
\* not reset (probes [F,F], threshold 2, enable accepted).
NoPassword == "error:No password found in Keychain"

C9_MissingCredential ==
    /\ (TickJustRan /\ answers.lookup = <<"absent">>) =>
          /\ answers.join = <<>>
          /\ Count(events, "call:join") = 0
          /\ Count(events, NoPassword) = 1
          /\ Count(events, "error:Failed to connect to hotspot") = 1
          /\ ~hist[N].active
          /\ hist[N].fails = PrevFails(N) + 1
          /\ hist[N].fails >= failure_threshold
    /\ Count(events, NoPassword) >= 1 => answers.lookup = <<"absent">>

C9_Witness ==
    /\ failure_threshold = DefaultFailureThreshold
    /\ N = 2
    /\ Probes = <<FALSE, FALSE>>
    /\ Accepted(answers.enable[1])
    /\ answers.lookup = <<"absent">>
    /\ failure_count = 2
    /\ ~failover_active

\* C10: with failure_threshold = 2 and recovery_threshold = 3 the probes
\* [T,F,F,T,T,T] yield the states [Idle,Idle,Active,Active,Active,Idle] at
\* the end of ticks 1..6, given that the failover attempt at tick 3 succeeds.
ScenarioProbes == <<TRUE, FALSE, FALSE, TRUE, TRUE, TRUE>>
ScenarioStates == <<FALSE, FALSE, TRUE, TRUE, TRUE, FALSE>>

C10_Scenario ==
    (/\ failure_threshold = DefaultFailureThreshold
     /\ recovery_threshold = DefaultRecoveryThreshold
     /\ IsPrefix(Probes, ScenarioProbes)
     /\ N >= 3 => hist[3].attempt = "ok")
    => IsPrefix(States, ScenarioStates)

C10_Witness ==
    /\ failure_threshold = DefaultFailureThreshold
    /\ recovery_threshold = DefaultRecoveryThreshold
    /\ Probes = ScenarioProbes
    /\ States = ScenarioStates

-----------------------------------------------------------------------------
\* Claims about the two threads together, and about the calls they make.

\* A heartbeat has just been sent by this step.
Beaten == calls'.heartbeat # calls.heartbeat

\* C11: a heartbeat, whatever the reply to it (accepted, rejected, transport
\* error), leaves the failover status and the two counters of the decision
\* loop as they were, wherever it falls between the steps of that loop.
C11_HeartbeatLeavesDecisionState ==
    [][Beaten => UNCHANGED <<failure_count, recovery_count, failover_active>>]_vars

\* The worker has just sent its second heartbeat, which was rejected, while
\* the decision loop is on the backup link.
C11_Witness ==
    /\ failover_active
    /\ hb_pc = "sleep"
    /\ calls.heartbeat = 2
    /\ hb_answers.ret = <<FALSE>>
    /\ ~hb_answers.resp[1].exc

\* monitor_network has left its loop / has returned.
LeftLoop == pc \in {"joining", "stopped"}
Interrupted == Count(events, "raise:KeyboardInterrupt") = 1

\* C12: once monitor_network has left its loop, by an interrupt or by any
\* other exception, no further pass starts; it leaves the loop only from the
\* running state and with the stop signal set by that very step; the signal
\* stays set; and it returns only from the wait for the worker.
C12_ShutdownOrder ==
    /\ [](LeftLoop => heartbeat_stop)
    /\ [][LeftLoop => hist' = hist]_vars
    /\ [][~LeftLoop /\ LeftLoop' => pc = "running" /\ pc' = "joining" /\ heartbeat_stop']_vars
    /\ [][pc' = "stopped" /\ pc # "stopped" => pc = "joining" /\ heartbeat_stop]_vars

\* monitor_network has returned after an exception other than an interrupt,
\* raised in its second pass; the stop signal is set.
C12_Witness ==
    /\ pc = "stopped"
    /\ heartbeat_stop
    /\ N = 2
    /\ Count(events, "raise:Exception") = 1

\* C13: when stop_heartbeat_thread has returned, the worker thread has ended.
C13_WorkerGoneAfterStop ==
    pc = "stopped" => ~IsAlive

\* C14: the wait for the worker ends, whatever the worker does, and even if
\* the worker never takes another step.
C14_ShutdownReturns ==
    (pc = "joining") ~> (pc = "stopped")

\* monitor_network has returned after an interrupt while the worker is still
\* inside send_heartbeat.
C14_Witness ==
    /\ pc = "stopped"
    /\ Interrupted
    /\ hb_pc = "send"

\* C15: after an interrupt the decision loop starts no further pass, and,
\* every heartbeat call and every sleep of the worker returning, the worker
\* loop ends once the stop signal is set.
C15_InterruptEndsBothLoops ==
    /\ [][Interrupted => hist' = hist]_vars
    /\ heartbeat_stop ~> (hb_pc = "exited")

\* After an interrupt, the worker, which had sent heartbeats, has left its
\* loop.
C15_Witness ==
    /\ Interrupted
    /\ hb_pc = "exited"
    /\ calls.heartbeat >= 1
    /\ N >= 1

-----------------------------------------------------------------------------
\* Claims about the failover attempt and about the remote calls.

\* Position of the first e in seq, 0 when there is none.
Pos(seq, e) ==
    IF Count(seq, e) = 0 THEN 0
    ELSE CHOOSE k \in 1..Len(seq) :
            seq[k] = e /\ \A j \in 1..(k - 1) : seq[j] # e

EnableCalls == Count(events, "call:enable")
SettleSleeps == Count(events, "sleep:settle")
ConnectCalls == Count(events, "call:lookup")

\* C16: in the pass that has just run, at most one enable call, one settle
\* delay and one connect are made; the delay and the connect happen only
\* after an enable call that was accepted in this pass, in the order enable,
\* delay, connect; and the pass enters Active only when that connect reported
\* success.
C16_AttemptOrder ==
    TickJustRan =>
        /\ EnableCalls <= 1 /\ SettleSleeps <= 1 /\ ConnectCalls <= 1
        /\ (ConnectCalls = 1 \/ SettleSleeps = 1) =>
              /\ EnableCalls = 1
              /\ answers.enable # <<>> /\ Accepted(answers.enable[1])
              /\ Pos(events, "call:enable") < Pos(events, "sleep:settle")
              /\ Pos(events, "sleep:settle") < Pos(events, "call:lookup")
        /\ Entered(N) =>
              /\ ConnectCalls = 1
              /\ Pos(events, "call:lookup") < Pos(events, "info:Connected")

\* The second pass has started an attempt whose connect succeeded.
C16_Witness ==
    /\ TickJustRan
    /\ N = 2
    /\ Entered(N)
    /\ EnableCalls = 1 /\ ConnectCalls = 1

\* C17: every pass that made an attempt probed offline, started Idle, and had
\* its failure counter at or above failure_threshold; the pass that has just
\* run called enable, the credential lookup or the join only under these
\* conditions; and an offline pass that starts Active makes no attempt, stays
\* Active, and still adds one to the failure counter.
C17_AttemptOnlyOfflineIdleAtThreshold ==
    /\ \A i \in Ticks :
          /\ hist[i].attempt # "none" =>
                /\ ~hist[i].online
                /\ ~hist[i].before
                /\ PrevFails(i) + 1 >= failure_threshold
          /\ (~hist[i].online /\ hist[i].before) =>
                /\ hist[i].attempt = "none"
                /\ hist[i].active
                /\ hist[i].fails = PrevFails(i) + 1
    /\ TickJustRan =>
          (EnableCalls + ConnectCalls + Count(events, "call:join") > 0 =>
              /\ ~hist[N].online
              /\ ~hist[N].before
              /\ hist[N].attempt # "none")

\* An offline pass while Active has just run: the failure counter is at the
\* threshold or above, and no call was made.
C17_Witness ==
    /\ TickJustRan
    /\ failure_threshold >= 1
    /\ ~hist[N].online /\ hist[N].before
    /\ failure_count >= failure_threshold
    /\ EnableCalls = 0 /\ ConnectCalls = 0

\* C18: in the pass that has just run, the probe reported the internet
\* reachable exactly when the ping returned code 0; a non-zero code, a
\* timeout and any other error all gave "unreachable", the error being
\* logged inside the probe and the pass going on after it.
C18_ProbeTrueOnlyOnZero ==
    TickJustRan =>
        /\ hist[N].online <=> ping = "rc0"
        /\ answers.probe = <<ping = "rc0">>
        /\ events[1] = "call:probe"
        /\ ping = "error" =>
              /\ events[2] = "error:Error checking connectivity"
              /\ Pos(events, "raise:Exception") \in {0} \cup (3..Len(events))
        /\ ping = "timeout" => Count(events, "error:Error checking connectivity") = 0

\* The second pass has just run, its ping failed to start, and the loop goes on.
C18_Witness ==
    /\ TickJustRan
    /\ N = 2
    /\ ping = "error"
    /\ ~hist[N].online
    /\ pc = "running"

\* The reply is a response with status code 200.
Is200(resp) == ~resp.exc /\ resp.status_code = 200
Returned200(resps, rets) ==
    /\ Len(rets) = Len(resps)
    /\ \A k \in 1..Len(resps) : rets[k] <=> Is200(resps[k])

\* C19: the last enable call, the last disable call and the last heartbeat
\* each returned a value, and returned true exactly when the reply was a
\* response with status code 200.
C19_TrueIffStatus200 ==
    /\ Returned200(answers.enable, answers.enable_ret)
    /\ Returned200(answers.disable, answers.disable_ret)
    /\ Returned200(hb_answers.resp, hb_answers.ret)

\* A disable call answered 204 has returned false, an enable call was made
\* before, and the last heartbeat, answered 200, returned true.
C19_Witness ==
    /\ answers.disable # <<>>
    /\ ~answers.disable[1].exc /\ answers.disable[1].status_code = 204
    /\ answers.disable_ret = <<FALSE>>
    /\ calls.enable >= 1
    /\ hb_answers.resp # <<>> /\ Is200(hb_answers.resp[1])
    /\ hb_answers.ret = <<TRUE>>

\* C20: for each endpoint the POSTs issued so far are as many as the calls
\* the two loops have made; the pass that has just run, and the last
\* heartbeat, issued one POST per call.
C20_OnePostPerCall ==
    /\ posts = calls
    /\ TickJustRan =>
          /\ EnableCalls = Len(answers.enable)
          /\ Count(events, "call:disable") = Len(answers.disable)
    /\ Count(hb_events, "call:heartbeat") = Len(hb_answers.resp)

\* An enable call, a disable call and a heartbeat have each issued their POST.
C20_Witness ==
    /\ posts.enable = 1 /\ posts.disable = 1 /\ posts.heartbeat = 2

-----------------------------------------------------------------------------
\* Claims about the heartbeat worker.

\* The log lines send_heartbeat can write.
HbLogLines ==
    {"info:Screen LOCKED - sending paused", "info:Screen UNLOCKED - sending active",
     "info:Heartbeats sent", "warning:Heartbeat failed",
     "warning:Error sending heartbeat"}
HbLogged(ev) == \E k \in 1..Len(ev) : ev[k] \in HbLogLines

\* C21: the last heartbeat tick asked the lock probe once, then sent one
\* heartbeat, with status "paused" when the probe found the screen locked
\* and "active" when it found it unlocked or failed; so far every tick has
\* sent exactly one heartbeat.
C21_OneHeartbeatWithLockStatus ==
    /\ posts.heartbeat = calls.heartbeat
    /\ hb_answers.lock # <<>> =>
          /\ Count(hb_events, "call:lock") = 1
          /\ Count(hb_events, "call:heartbeat") = 1
          /\ Pos(hb_events, "call:lock") < Pos(hb_events, "call:heartbeat")
          /\ hb_answers.status =
                <<IF hb_answers.lock[1] = "rc0" THEN "paused" ELSE "active">>

\* The second heartbeat has been sent after a lock probe that failed, the
\* screen having been locked at the first: the status sent is "active".
C21_Witness ==
    /\ calls.heartbeat = 2
    /\ hb_answers.lock = <<"raise">>
    /\ hb_answers.status = <<"active">>
    /\ last_lock_status = "False"
    /\ Count(hb_events, "info:Screen UNLOCKED - sending active") = 1

\* C22: a heartbeat, failed or not, is followed by the sleep of the loop; the
\* worker leaves its loop only at the test of the stop flag, and only with
\* the flag set.
C22_FailedHeartbeatKeepsLoop ==
    /\ [][Beaten => hb_pc' = "sleep"]_vars
    /\ [][hb_pc # "exited" /\ hb_pc' = "exited" => hb_pc = "check" /\ heartbeat_stop]_vars
    /\ [](hb_pc = "exited" => heartbeat_stop)

\* After a first heartbeat that met a transport error, the worker, not asked
\* to stop, is inside its second heartbeat.
C22_Witness ==
    /\ hb_pc = "send"
    /\ ~heartbeat_stop
    /\ calls.heartbeat = 1
    /\ hb_answers.ret = <<FALSE>>
    /\ hb_answers.resp[1].exc

\* C23: a heartbeat tick writes a log line only when the lock status has
\* changed or the tick is an Nth one.
C23_LogOnlyOnChangeOrNth ==
    [][Beaten /\ HbLogged(hb_events') =>
          \/ last_lock_status' # last_lock_status
          \/ calls'.heartbeat % HeartbeatLogEvery = 0]_vars

\* C23 as amended: a heartbeat tick writes an informational line only when
\* the lock status has changed or the number of accepted heartbeats has
\* reached a multiple of N; an accepted heartbeat with neither writes
\* nothing; a heartbeat that failed writes exactly one warning.
HbInfoLines == {e \in HbLogLines : e \notin {"warning:Heartbeat failed",
                                             "warning:Error sending heartbeat"}}
HbWarnings(ev) == Count(ev, "warning:Heartbeat failed")
                  + Count(ev, "warning:Error sending heartbeat")
C23_LogOnChangeNthAcceptedOrFailure ==
    [][Beaten =>
          LET changed == last_lock_status' # last_lock_status
              accepted == heartbeat_count' = heartbeat_count + 1
              nth == accepted /\ heartbeat_count' % HeartbeatLogEvery = 0
          IN /\ accepted <=> hb_answers'.ret = <<TRUE>>
             /\ ~accepted => heartbeat_count' = heartbeat_count
             /\ (\E k \in 1..Len(hb_events') : hb_events'[k] \in HbInfoLines)
                   <=> (changed \/ nth)
             /\ HbWarnings(hb_events') = (IF accepted THEN 0 ELSE 1)]_vars

\* The eleventh tick has brought the accepted heartbeats to ten and written
\* the periodic line, the lock status being unchanged.
C23_Witness ==
    /\ calls.heartbeat = 11
    /\ heartbeat_count = 10
    /\ hb_events = <<"call:lock", "call:heartbeat", "info:Heartbeats sent">>

-----------------------------------------------------------------------------
\* Further claims about the decision loop and the shutdown.

\* C28: after every pass at most one of the two counters is non-zero and
\* neither is negative; a pass that probed online has the failure counter at
\* 0 and the success counter one higher than before (0 when the pass went
\* back to Idle); a pass that probed offline has the success counter at 0 and
\* the failure counter one higher than before (0 when the pass went Active).
C28_CountersExclusive ==
    /\ failure_count >= 0 /\ recovery_count >= 0
    /\ failure_count = 0 \/ recovery_count = 0
    /\ \A i \in Ticks :
          /\ hist[i].fails = 0 \/ hist[i].succs = 0
          /\ hist[i].online =>
                /\ hist[i].fails = 0
                /\ hist[i].succs = (IF Returned(i) THEN 0 ELSE PrevSuccs(i) + 1)
          /\ ~hist[i].online =>
                /\ hist[i].succs = 0
                /\ hist[i].fails = (IF Entered(i) THEN 0 ELSE PrevFails(i) + 1)

\* Two online passes while Idle have followed an offline pass: the success
\* counter is 2 and the failure counter 0.
C28_Witness ==
    /\ N >= 3
    /\ ~hist[N-2].online /\ hist[N-2].fails = 1
    /\ hist[N-1].online /\ hist[N].online
    /\ ~hist[N].before /\ ~failover_active
    /\ recovery_count = 2 /\ failure_count = 0

Recoveries == Cardinality({i \in Ticks : Returned(i)})

\* C29: the disable POSTs issued so far, the shutdown included, are as many
\* as the passes that went from Active back to Idle, and the pass that has
\* just run called disable exactly when it was such a pass; so a pass whose
\* enable was accepted and whose connect failed is followed by no disable
\* until a later pass has gone Active.
C29_DisableOnlyOnRecovery ==
    /\ posts.disable = Recoveries
    /\ calls.disable = Recoveries
    /\ TickJustRan =>
          Count(events, "call:disable") = (IF Returned(N) THEN 1 ELSE 0)
    /\ \A i \in Ticks :
          Returned(i) => hist[i].online /\ \E j \in 1..(i - 1) : Entered(j)

\* monitor_network has left its loop on an interrupt while Active, after a
\* pass whose enable was accepted and whose connect failed: no disable POST
\* has been issued.
C29_Witness ==
    /\ pc = "joining"
    /\ Interrupted
    /\ failover_active
    /\ \E i \in Ticks : hist[i].attempt = "connfail"
    /\ posts.disable = 0

\* C30: no heartbeat follows a heartbeat that was started with the stop
\* signal already set; a heartbeat made with the signal set comes from a
\* worker that had passed the test of the flag; at the test of the flag
\* with the signal set the worker leaves its loop, for good; and the signal
\* stays set.
C30_AtMostOneBeatAfterStop ==
    /\ [][Beaten => hb_answers.stop # <<TRUE>>]_vars
    /\ [][heartbeat_stop /\ Beaten => hb_pc = "send" /\ hb_pc' = "sleep"]_vars
    /\ [][heartbeat_stop /\ hb_pc = "sleep" => hb_pc' \in {"sleep", "check"}]_vars
    /\ [][heartbeat_stop /\ hb_pc = "check" => hb_pc' \in {"check", "exited"}]_vars
    /\ [][hb_pc = "exited" => hb_pc' = "exited"]_vars
    /\ [][heartbeat_stop => heartbeat_stop']_vars

\* The worker has left its loop after a heartbeat, its second, that it
\* started when the stop signal was already set.
C30_Witness ==
    /\ hb_pc = "exited"
    /\ hb_answers.stop = <<TRUE>>
    /\ calls.heartbeat = 2

-----------------------------------------------------------------------------
\* Claims about the start and the stop of the worker.

\* Worker threads that are running.
LiveWorkers == orphans + (IF IsAlive THEN 1 ELSE 0)

\* C26: whatever start_heartbeat_thread and stop_heartbeat_thread calls have
\* been made, at most one worker thread is running.
C26_AtMostOneWorker ==
    LiveWorkers <= 1

\* After a start, a stop and a second start, a worker is running that was
\* started by the second start, the first having ended after a heartbeat.
C26_Witness ==
    /\ events = <<"call:start_heartbeat_thread", "call:stop_heartbeat_thread",
                  "call:start_heartbeat_thread">>
    /\ calls.heartbeat = 1
    /\ hb_pc = "check"
    /\ ~heartbeat_stop
    /\ LiveWorkers = 1

-----------------------------------------------------------------------------
\* Claims about the configuration the monitor is started with.

Starters == {"start_monitor", "start_daemon_background"}

\* C24: every monitor constructed has a non-empty hotspot name, URL and
\* secret; start_monitor and start_daemon_background, run on a configuration
\* with one of them missing, return False and construct nothing; and main,
\* run with daemon, start or status on such a configuration, reaches neither
\* of the two and constructs nothing.
C24_NoStartWithMissingConfig ==
    /\ cli.monitor # <<>> => Complete(cli.monitor[1])
    /\ cli.entry \in Starters /\ ~cli.config_exists =>
          cli.ret = "False" /\ cli.monitor = <<>>
    /\ (/\ cli.entry = "main"
        /\ cli.command \in {"daemon", "start", "status"}
        /\ ~cli.config_exists) =>
          /\ \A k \in 1..Len(cli.reached) : cli.reached[k] \notin Starters
          /\ cli.monitor = <<>>

\* start_monitor has just returned False on a configuration that has a
\* hotspot name and a URL but no secret.
C24_Witness ==
    /\ cli.entry = "start_monitor"
    /\ Truthy(config.hotspot_ssid) /\ Truthy(config.worker_url)
    /\ ~Truthy(config.worker_secret)
    /\ cli.ret = "False"
    /\ cli.monitor = <<>>

\* C25: every monitor constructed has a URL that begins with https://.
C25_MonitorUrlIsHttps ==
    cli.monitor # <<>> => StartsWithHttps(cli.monitor[1].worker_url)

-----------------------------------------------------------------------------
\* Further claims about the start and the stop of the worker.

\* The last call made of the two public methods.
LastCall == IF events = <<>> THEN "none" ELSE events[Len(events)]

\* C31: from the return of start_heartbeat_thread to the next call of
\* stop_heartbeat_thread, a worker is alive and the stop flag is clear,
\* whatever calls came before.
C31_WorkerRunsAfterStart ==
    LastCall = "call:start_heartbeat_thread" => IsAlive /\ ~heartbeat_stop

-----------------------------------------------------------------------------
\* Further claims about the heartbeat worker.

LockedLine == "info:Screen LOCKED - sending paused"
UnlockedLine == "info:Screen UNLOCKED - sending active"
LockLineCount(ev) == Count(ev, LockedLine) + Count(ev, UnlockedLine)
\* What the lock probe of a heartbeat tick returned.
Probed(ans) == is_screen_locked(ans.lock[1])

\* C32: a heartbeat tick writes one lock-status line when it is the first
\* tick or its probe differs from that of the tick before, and none
\* otherwise; the line names the status probed and comes before the POST,
\* whatever the reply to the POST; after the tick last_lock_status is the
\* status probed.
C32_LockChangeLoggedOnce ==
    [][Beaten =>
          LET now == Probed(hb_answers')
              changed == hb_answers.lock = <<>> \/ Probed(hb_answers) # now
              line == IF now THEN LockedLine ELSE UnlockedLine
          IN /\ LockLineCount(hb_events') = (IF changed THEN 1 ELSE 0)
             /\ changed =>
                   /\ Count(hb_events', line) = 1
                   /\ Pos(hb_events', line) < Pos(hb_events', "call:heartbeat")
             /\ last_lock_status' = (IF now THEN "True" ELSE "False")]_vars

\* The second tick found the screen locked, logged it before the POST, and
\* the heartbeat was rejected with status 500.
C32_Witness ==
    /\ calls.heartbeat = 2
    /\ hb_answers.lock = <<"rc0">>
    /\ hb_answers.resp = <<[exc |-> FALSE, status_code |-> 500]>>
    /\ hb_events = <<"call:lock", LockedLine, "call:heartbeat",
                     "warning:Heartbeat failed">>
    /\ last_lock_status = "True"

\* C33: heartbeat_count starts at 0 and goes up by one at every heartbeat
\* answered with status 200, and at no other step: a heartbeat answered with
\* another status or with a transport error, and every step that is not a
\* heartbeat, leave it as it was; the periodic line is written by exactly
\* those heartbeats that are accepted and bring it to a multiple of 10.
Answered200(ans) == ans.resp = <<[exc |-> FALSE, status_code |-> HTTP_OK]>>
C33_CountIsAcceptedHeartbeats ==
    /\ heartbeat_count = 0
    /\ [][LET accepted == Beaten /\ Answered200(hb_answers')
          IN /\ heartbeat_count' = heartbeat_count + (IF accepted THEN 1 ELSE 0)
             /\ Beaten =>
                   Count(hb_events', "info:Heartbeats sent") =
                      (IF accepted /\ heartbeat_count' % HeartbeatLogEvery = 0
                       THEN 1 ELSE 0)]_vars

\* The tenth heartbeat is the tenth accepted one and has written the
\* periodic line.
C33_Witness ==
    /\ calls.heartbeat = 10
    /\ heartbeat_count = 10
    /\ Answered200(hb_answers)
    /\ Count(hb_events, "info:Heartbeats sent") = 1

-----------------------------------------------------------------------------
\* Further claims about the two threads together.

\* A pass of the decision loop has been made by this step.
Passed == Len(hist') # Len(hist)

\* C34: a pass of the decision loop leaves heartbeat_count,
\* last_lock_status and the rest of the worker's state as they were; the
\* stop flag changes only at the step that takes monitor_network from its
\* loop to the shutdown, where it is set; no step of the worker changes it.
C34_LoopsShareOnlyStopSignal ==
    /\ [][Passed => UNCHANGED hbVars]_vars
    /\ [][Passed /\ pc' = "running" => UNCHANGED heartbeat_stop]_vars
    /\ [][heartbeat_stop' # heartbeat_stop =>
             pc = "running" /\ pc' = "joining" /\ heartbeat_stop']_vars

\* Two heartbeats were accepted, the flag being clear at both; then a pass
\* of the loop raised, which set the flag: the pass has left the count of
\* the worker at two and its lock status as stored.
C34_Witness ==
    /\ pc = "joining"
    /\ heartbeat_stop
    /\ events[Len(events)] = "error:Unexpected error"
    /\ hb_answers.stop = <<FALSE>>
    /\ heartbeat_count = 2
    /\ last_lock_status = "False"

-----------------------------------------------------------------------------
\* Claims about the setup.

\* The steps of setup_non_interactive that write the configuration file.
ConfigWrites == {"set_hotspot_ssid", "set_worker_url", "set_worker_secret"}
\* The three values are present and the URL begins with https://.
EnvValid(env) ==
    /\ Truthy(env.ssid) /\ Truthy(env.url) /\ Truthy(env.secret)
    /\ StartsWithHttps(env.url)

\* C35: a run of setup_non_interactive with HOTSPOT_SSID, WORKER_URL or
\* WORKER_SECRET missing, or with a WORKER_URL that does not begin with
\* https://, returns False, leaves the stored configuration as it was, kills
\* no daemon and starts none; in every run each write of the configuration
\* comes after the existing daemons were killed and before the daemon is
\* started.
C35_ValidatesBeforeActing ==
    [][cli'.env # <<>> =>
          LET env == cli'.env[1]
              r == cli'.reached
          IN /\ ~EnvValid(env) =>
                   /\ cli'.entry = "setup_non_interactive" => cli'.ret = "False"
                   /\ config' = config
                   /\ \A k \in 1..Len(r) :
                         r[k] \notin ConfigWrites \cup {"kill_existing_daemons",
                                                        "start_daemon_launchd"}
             /\ \A k \in 1..Len(r) : r[k] \in ConfigWrites =>
                   /\ \E j \in 1..(k - 1) : r[j] = "kill_existing_daemons"
                   /\ \A j \in 1..(k - 1) : r[j] # "start_daemon_launchd"
                   /\ \E j \in (k + 1)..Len(r) : r[j] = "start_daemon_launchd"]_vars

\* setup_non_interactive has returned False on a WORKER_URL that begins with
\* http://, the other two values being present: the complete configuration
\* stored before is still there.
C35_Witness ==
    /\ cli.entry = "setup_non_interactive"
    /\ cli.env = <<[ssid |-> <<"h">>, url |-> <<"http://", "w">>, secret |-> <<"s">>]>>
    /\ cli.ret = "False"
    /\ cli.reached = <<"setup_non_interactive">>
    /\ cli.config_exists
    /\ config.worker_url = <<"https://", "w">>

=============================================================================
